---- MODULE Spec2Model ----
(***************************************************************************)
(* Order tracking state machine of apps/users: Order, TrackingEvent,       *)
(* AutoStatusTemplate, handle_scan (models.py) and OrderClaimAPIView       *)
(* (views.py).  Status texts are the source's Russian strings written in   *)
(* Latin transliteration (the parser accepts ASCII strings only).          *)
(* Time is counted in whole minutes.                                       *)
(***************************************************************************)
EXTENDS Naturals, Sequences, FiniteSets, TLC

VARIABLES
    conf,       \* the scenario: requests that may run, their inputs, last clock value
    clock,      \* timezone.now(), in minutes
    orders,     \* committed rows: tracking number -> Order with its events
    lock,       \* select_for_update row lock: tracking number -> holder (0 = free)
    tx,         \* per request: writes of the open transaction.atomic() block
    pc,         \* per request: position in the handler
    call,       \* per request: operation and its arguments
    ret,        \* per request: outcome of the call (what the caller observes)
    last_number,\* ClientCodeCounter.last_number of the pickup point (committed)
    clients,    \* committed User rows of the new users: lc_number, client_code
    assign      \* per new user: the running assign_client_code call

codeVars == <<last_number, clients, assign>>

vars == <<conf, clock, orders, lock, tx, pc, call, ret, last_number, clients, assign>>

(***************************************************************************)
(* Bounds of the model                                                     *)
(***************************************************************************)
MaxTime == 20        \* last clock value, one request at a time
MaxTimeConc == 1     \* minutes that pass with two requests in parallel
MaxTimeAnon == 7     \* last clock value, scans without a user allowed
MaxAnonScans == 1    \* scans without a user (legacy callers) per order
MaxFlight == 1       \* minutes a request may take from arrival to return
MaxTimeBlank == 3    \* last clock value, tracking numbers sent with blanks
MaxTimeTwo == 1      \* last clock value, two requests and two tracking numbers
MaxTimeLive == 20    \* last clock value, two requests under fair scheduling

Procs == {1, 2}
\* Order.tracking_number values (the empty string is what a blank input
\* strips to)
TrackingNumbers == {"AB123", "CD456", ""}
\* the tracking_number argument as callers send it
RawTrackingNumbers == {"AB123", "CD456", " AB123 ", "  "}
Locations == {"Guangzhou"}

\* str.strip(), for the blank character
RECURSIVE lstrip(_)
lstrip(s) ==
    IF Len(s) > 0 /\ SubSeq(s, 1, 1) = " " THEN lstrip(SubSeq(s, 2, Len(s))) ELSE s

RECURSIVE rstrip(_)
rstrip(s) ==
    IF Len(s) > 0 /\ SubSeq(s, Len(s), Len(s)) = " "
    THEN rstrip(SubSeq(s, 1, Len(s) - 1)) ELSE s

strip(s) == rstrip(lstrip(s))

(***************************************************************************)
(* Reference data: users and pickup points                                 *)
(***************************************************************************)
NoUser == "None"
NoEvent == [status |-> "", location |-> "", timestamp |-> 0, actor |-> NoUser]

PickupPoint ==
    [ bishkek |-> [name_ru |-> "Bishkek", code_label |-> "LIDER CARGO Bishkek",
                   region_code |-> "01", branch_code |-> "01",
                   lc_prefix |-> "LC", address |-> "ul. Primer, 1"],
      osh     |-> [name_ru |-> "Osh", code_label |-> "",
                   region_code |-> "02", branch_code |-> "01",
                   lc_prefix |-> "LC", address |-> "ul. Lenina, 5"] ]

User ==
    [ emp  |-> [is_authenticated |-> TRUE, is_employee |-> TRUE,  is_staff |-> FALSE,
                is_superuser |-> FALSE, pickup_point |-> "bishkek"],
      cli  |-> [is_authenticated |-> TRUE, is_employee |-> FALSE, is_staff |-> FALSE,
                is_superuser |-> FALSE, pickup_point |-> "osh"],
      cli2 |-> [is_authenticated |-> TRUE, is_employee |-> FALSE, is_staff |-> FALSE,
                is_superuser |-> FALSE, pickup_point |-> "bishkek"] ]

Users == DOMAIN User
Scanners == {NoUser, "emp", "cli"}
Claimers == {"cli", "cli2"}

(***************************************************************************)
(* Order.STATUS_FLOW and the settings                                      *)
(***************************************************************************)
STATUS_FLOW ==
    << "Tovar postupil na sklad v Kitae",
       "Tovar otpravlen so sklada",
       "Pribyl v punkt vydachi",
       "Poluchen" >>

ARRIVED_PREFIX == "Tovar pribyl v punkt vydachi"

SCAN_COOLDOWN_MINUTES == 5

StartsWith(s, prefix) ==
    /\ Len(s) >= Len(prefix)
    /\ SubSeq(s, 1, Len(prefix)) = prefix

(***************************************************************************)
(* AutoStatusTemplate rows.  A text is the list of its literal pieces and  *)
(* its "{placeholder}" pieces; their concatenation is the stored text.     *)
(***************************************************************************)
AutoStatusTemplate ==
    { [id |-> 1, phase |-> "AFTER_SCAN_1", order_index |-> 0, offset_minutes |-> 0,
       is_active |-> TRUE,  text |-> <<"Gotovitsya k otpravke v ", "{dest_city}">>],
      [id |-> 2, phase |-> "AFTER_SCAN_1", order_index |-> 1, offset_minutes |-> 2,
       is_active |-> TRUE,  text |-> <<"V puti">>],
      [id |-> 3, phase |-> "AFTER_SCAN_2", order_index |-> 0, offset_minutes |-> 0,
       is_active |-> FALSE, text |-> <<"Na granice">>],
      [id |-> 6, phase |-> "AFTER_SCAN_2", order_index |-> 1, offset_minutes |-> 0,
       is_active |-> TRUE,  text |-> <<"Gotovitsya k otpravke v ", "{dest_city}">>],
      [id |-> 4, phase |-> "AFTER_SCAN_3", order_index |-> 0, offset_minutes |-> 0,
       is_active |-> TRUE,  text |-> <<"Ozhidaet vydachi, trek ", "{track}">>],
      [id |-> 5, phase |-> "AFTER_SCAN_4", order_index |-> 0, offset_minutes |-> 0,
       is_active |-> TRUE,  text |-> <<"Spasibo ", "{client}">>],
      [id |-> 7, phase |-> "AFTER_SCAN_4", order_index |-> 1, offset_minutes |-> 0,
       is_active |-> TRUE,  text |-> <<"Vydan v ", "{dest_city}">>] }

(***************************************************************************)
(* Order._template_context and Order._render_text                          *)
(***************************************************************************)
Or(a, b) == IF a # "" THEN a ELSE b

ContextOf(pp, track) ==
    LET dest_city  == IF pp # "" THEN PickupPoint[pp].name_ru ELSE ""
        dest_code  == IF pp # ""
                      THEN PickupPoint[pp].region_code \o "-" \o PickupPoint[pp].branch_code
                      ELSE ""
        dest_addr  == IF pp # "" THEN PickupPoint[pp].address ELSE ""
        dest_label == IF pp # "" THEN PickupPoint[pp].code_label ELSE ""
    IN  [ pvz_name    |-> Or(dest_label, dest_city),
          pvz_code    |-> dest_code,
          pvz_address |-> dest_addr,
          track       |-> track,
          dest_city   |-> dest_city,
          dest_label  |-> dest_label,
          dest_code   |-> dest_code ]

\* owner: the order's user (or NoUser); actor: the scanning user (or NoUser)
_template_context(owner, track, actor) ==
    LET pp == IF owner # NoUser THEN User[owner].pickup_point
              ELSE IF actor # NoUser THEN User[actor].pickup_point
              ELSE ""
    IN  ContextOf(pp, track)

IsPlaceholder(piece) == Len(piece) >= 2 /\ SubSeq(piece, 1, 1) = "{"
FieldName(piece) == SubSeq(piece, 2, Len(piece) - 1)

RECURSIVE Concat(_)
Concat(pieces) ==
    IF pieces = <<>> THEN "" ELSE Head(pieces) \o Concat(Tail(pieces))

\* str.format(**context): KeyError on an unknown field
Formattable(pieces, ctx) ==
    \A i \in 1..Len(pieces) :
        IsPlaceholder(pieces[i]) => FieldName(pieces[i]) \in DOMAIN ctx

Format(pieces, ctx) ==
    Concat([i \in 1..Len(pieces) |->
              IF IsPlaceholder(pieces[i]) THEN ctx[FieldName(pieces[i])] ELSE pieces[i]])

\* an unknown field rendered as nothing, in place of the raw text
_render_text_blanking(pieces, owner, track, actor) ==
    LET ctx == _template_context(owner, track, actor)
    IN  Concat([i \in 1..Len(pieces) |->
                  IF ~IsPlaceholder(pieces[i]) THEN pieces[i]
                  ELSE IF FieldName(pieces[i]) \in DOMAIN ctx
                       THEN ctx[FieldName(pieces[i])] ELSE ""])

_render_text(pieces, owner, track, actor) ==
    LET ctx == _template_context(owner, track, actor)
    IN  IF Formattable(pieces, ctx) THEN Format(pieces, ctx) ELSE Concat(pieces)

ARRIVED_TEMPLATE ==
    << "Tovar pribyl v punkt vydachi [", "{pvz_name}", " ", "{pvz_code}",
       ", trek-nomer: ", "{track}", ", adres: ", "{pvz_address}", "]" >>

(***************************************************************************)
(* Queries on an order's events (a sequence in insertion order)            *)
(***************************************************************************)
IsManual(e) == e.actor # NoUser

ManualEvents(events) == SelectSeq(events, IsManual)

Statuses(events) == {events[i].status : i \in 1..Len(events)}

HasManual(events) == \E i \in 1..Len(events) : IsManual(events[i])

\* timestamp of Order.last_manual_event (order_by("-timestamp").first())
LastManualTimestamp(events) ==
    CHOOSE t \in {events[i].timestamp : i \in {j \in 1..Len(events) : IsManual(events[j])}} :
        \A i \in 1..Len(events) : IsManual(events[i]) => events[i].timestamp <= t

\* exact comparison for every step, the expanded step-3 text forgotten
matches_exact(flow_text, actual) == actual = flow_text

matches(flow_text, actual) ==
    IF flow_text = "Pribyl v punkt vydachi"
    THEN StartsWith(actual, ARRIVED_PREFIX)
    ELSE actual = flow_text

\* the loop of Order.next_status: number of leading STATUS_FLOW steps that
\* have a matching manual event (progress + 1 in the source's counting)
RECURSIVE ProgressFrom(_, _)
ProgressFrom(manual_texts, idx) ==
    IF idx > Len(STATUS_FLOW) THEN Len(STATUS_FLOW)
    ELSE IF \E t \in manual_texts : matches(STATUS_FLOW[idx], t)
         THEN ProgressFrom(manual_texts, idx + 1)
         ELSE idx - 1

Progress(events) == ProgressFrom(Statuses(ManualEvents(events)), 1)

NoStatus == ""

\* the index clamped to the last step in place of the None result
next_status_clamped(events) ==
    LET nxt_idx == Progress(events) + 1
    IN  IF nxt_idx <= Len(STATUS_FLOW) THEN STATUS_FLOW[nxt_idx]
        ELSE STATUS_FLOW[Len(STATUS_FLOW)]

next_status(events) ==
    LET nxt_idx == Progress(events) + 1
    IN  IF nxt_idx <= Len(STATUS_FLOW) THEN STATUS_FLOW[nxt_idx] ELSE NoStatus

\* the boundary excluded: ">" in place of ">="
can_scan_strict(events, now) ==
    IF ~HasManual(events) THEN TRUE
    ELSE now > LastManualTimestamp(events) + SCAN_COOLDOWN_MINUTES

can_scan(events, now) ==
    IF ~HasManual(events) THEN TRUE
    ELSE now >= LastManualTimestamp(events) + SCAN_COOLDOWN_MINUTES

(***************************************************************************)
(* Order.create_due_auto_events                                            *)
(***************************************************************************)
NoPhase == ""

PHASE_BY_STATUS(status) ==
    IF status = "Tovar postupil na sklad v Kitae" THEN "AFTER_SCAN_1"
    ELSE IF status = "Tovar otpravlen so sklada" THEN "AFTER_SCAN_2"
    ELSE IF status = "Pribyl v punkt vydachi" THEN "AFTER_SCAN_3"
    ELSE IF status = "Poluchen" THEN "AFTER_SCAN_4"
    ELSE NoPhase

\* the lookup without the startswith fallback for the rendered step 3
PhaseOfExact(status) == PHASE_BY_STATUS(status)

PhaseOf(status) ==
    IF PHASE_BY_STATUS(status) # NoPhase THEN PHASE_BY_STATUS(status)
    ELSE IF StartsWith(status, ARRIVED_PREFIX) THEN "AFTER_SCAN_3"
    ELSE NoPhase

\* AutoStatusTemplate.objects.filter(phase=phase, is_active=True).order_by("order_index")
RECURSIVE OrderByIndex(_)
OrderByIndex(tpls) ==
    IF tpls = {} THEN <<>>
    ELSE LET first == CHOOSE t \in tpls :
                        \A u \in tpls : t.order_index <= u.order_index
         IN  <<first>> \o OrderByIndex(tpls \ {first})

\* the rows of the query, per phase that has templates
TemplatesByPhase ==
    [phase \in {t.phase : t \in AutoStatusTemplate} |->
        OrderByIndex({t \in AutoStatusTemplate : t.phase = phase /\ t.is_active})]

ActiveTemplates(phase) ==
    IF phase \in DOMAIN TemplatesByPhase THEN TemplatesByPhase[phase] ELSE <<>>

\* the loop over the templates: the events it creates, in creation order
RECURSIVE DueLoop(_, _, _, _, _, _, _)
DueLoop(templates, exists_cache, base_event, now, owner, track, actor) ==
    IF templates = <<>> THEN <<>>
    ELSE LET tpl      == Head(templates)
             due_ts   == base_event.timestamp + tpl.offset_minutes
             rendered == _render_text(tpl.text, owner, track, actor)
         IN  IF due_ts <= now /\ rendered \notin exists_cache
             THEN << [status |-> rendered, location |-> "(avto)",
                      timestamp |-> due_ts, actor |-> NoUser] >>
                  \o DueLoop(Tail(templates), exists_cache \cup {rendered},
                             base_event, now, owner, track, actor)
             ELSE DueLoop(Tail(templates), exists_cache,
                          base_event, now, owner, track, actor)

\* the auto-events stamped with the time of their creation
create_due_auto_events_stamped_now(events, owner, track, base_event, actor, now) ==
    LET phase == PhaseOf(base_event.status)
        autos == IF phase = NoPhase THEN <<>>
                 ELSE DueLoop(ActiveTemplates(phase), Statuses(events),
                              base_event, now, owner, track, actor)
    IN  [i \in 1..Len(autos) |-> [autos[i] EXCEPT !.timestamp = now]]

\* events: the order's events as the caller sees them; result: the new events
create_due_auto_events(events, owner, track, base_event, actor, now) ==
    LET phase == PhaseOf(base_event.status)
    IN  IF phase = NoPhase THEN <<>>
        ELSE DueLoop(ActiveTemplates(phase), Statuses(events),
                     base_event, now, owner, track, actor)

(***************************************************************************)
(* State of the requests                                                   *)
(***************************************************************************)
NoCall == [op |-> "none", tn |-> "", user |-> NoUser,
           raise_on_cooldown |-> FALSE, location |-> "", age |-> 0]

\* kind: what the caller observes.  The other fields describe a call that ran
\* in parallel with the other request's call on the same tracking number
\* (paired): its user, whether the order existed and was open to the call
\* (a scan: not terminal and past its cooldown; a claim: without an owner),
\* its progress when the call arrived, and the clock at which the call
\* examined the order.
NoRet == [kind |-> "none", paired |-> FALSE, tn |-> "", user |-> NoUser,
          existed |-> FALSE, ready |-> FALSE, before |-> 0, at |-> 0,
          is_owner |-> FALSE, can_claim |-> FALSE]

\* user: Order.user_id of the row instance the request fetched
NoTx == [created |-> FALSE, events |-> <<>>, user |-> NoUser]

\* rows: the number of committed Order rows carrying the tracking number
NoOrder == [exists |-> FALSE, rows |-> 0, tracking_number |-> "",
            user |-> NoUser, events |-> <<>>]

\* every request handler receives the tracking numbers of S
Everyone(S) == [p \in Procs |-> S]

\* users being registered at pickup point "bishkek", none with a manual
\* lc_number or region_code
NewUsers == {"n1", "n2", "n3"}

NoCode == ""

\* in memory: counter.last_number, self.lc_number and self.client_code
NoAssign == [pc |-> "new", save |-> FALSE, last_number |-> 0,
             lc_number |-> NoCode, client_code |-> NoCode]

\* no client code assigned yet, the counter row at its default
InitCodes ==
    /\ last_number = 0
    /\ clients = [u \in NewUsers |-> [lc_number |-> NoCode, client_code |-> NoCode]]
    /\ assign = [u \in NewUsers |-> NoAssign]

\* inputs: the tracking_number arguments each request handler receives;
\* step: the minutes between two looks at the clock
InitWith(procs, horizon, flight, anon, inputs, step) ==
    /\ conf = [procs |-> procs, horizon |-> horizon, flight |-> flight, anon |-> anon,
               inputs |-> inputs, solo |-> Cardinality(procs) = 1,
               step |-> step]
    /\ clock = 0
    /\ orders = [tn \in TrackingNumbers |-> NoOrder]
    /\ lock = [tn \in TrackingNumbers |-> 0]
    /\ tx = [p \in Procs |-> NoTx]
    /\ pc = [p \in Procs |-> "idle"]
    /\ call = [p \in Procs |-> NoCall]
    /\ ret = [p \in Procs |-> NoRet]
    /\ InitCodes

\* one request at a time, each served within the minute it arrives in
Init == InitWith({1}, MaxTime, 0, 0, Everyone({"AB123"}), 1)

\* one request at a time, scans without a user (legacy callers) included
InitAnon == InitWith({1}, MaxTimeAnon, 0, MaxAnonScans, Everyone({"AB123"}), 1)

\* two requests in parallel, one on each of two tracking numbers, each
\* served within the minute it arrives in
InitTwo ==
    InitWith(Procs, MaxTimeTwo, 0, 0,
             [p \in Procs |-> IF p = 1 THEN {"AB123"} ELSE {"CD456"}], 1)

\* one request at a time, tracking numbers padded with blanks or blank
InitBlank == InitWith({1}, MaxTimeBlank, 0, 0, Everyone({" AB123 ", "  "}), 1)

InFlight(p) == pc[p] # "idle"

\* request handlers that receive the same requests are interchangeable: of
\* these an arriving request is served by the lowest-numbered idle one
Serves(p) ==
    /\ p \in conf.procs
    /\ pc[p] = "idle"
    /\ \A q \in conf.procs :
          (q < p /\ conf.inputs[q] = conf.inputs[p]) => InFlight(q)

\* the events of its order row as request p reads them inside its
\* transaction (a row it has just inserted has only the events it added)
View(p, tn) ==
    IF tx[p].created THEN tx[p].events ELSE orders[tn].events \o tx[p].events

AnonScans(events) ==
    Cardinality({i \in 1..Len(events) :
                    events[i].actor = NoUser /\ events[i].location # "(avto)"})

\* request p arrives with a call of user on tn
Arrive(p, op, tn, user) ==
    [q \in Procs |->
        IF q = p
        THEN [kind    |-> "pending",
              paired  |-> \E o \in Procs \ {p} : InFlight(o) /\ call[o].tn = tn,
              tn      |-> tn,
              user    |-> user,
              existed |-> orders[tn].exists,
              ready   |-> /\ orders[tn].exists
                          /\ IF op = "claim"
                             THEN orders[tn].user = NoUser
                             ELSE /\ Progress(orders[tn].events) < Len(STATUS_FLOW)
                                  /\ can_scan(orders[tn].events, clock),
              before  |-> Progress(orders[tn].events),
              at      |-> 0,
              is_owner |-> FALSE, can_claim |-> FALSE]
        ELSE IF InFlight(q) /\ call[q].tn = tn
             THEN [ret[q] EXCEPT !.paired = TRUE]
             ELSE IF InFlight(q) THEN ret[q]
             ELSE [NoRet EXCEPT !.kind = ret[q].kind]]

\* request p examines the order now
Examined(p) == [ret EXCEPT ![p].at = clock]

\* request p's call ends with outcome kind (r: the outcomes so far).  With
\* requests in parallel only the outcomes of paired calls are recorded.
Leave(r, p, kind) ==
    [r EXCEPT ![p] = IF @.paired THEN [@ EXCEPT !.kind = kind]
                     ELSE IF conf.solo THEN [NoRet EXCEPT !.kind = kind]
                     ELSE NoRet]

(***************************************************************************)
(* handle_scan                                                             *)
(***************************************************************************)
\* the capability test left out
MayScanAnyone(user) == TRUE

\* the capability test of handle_scan
MayScan(user) ==
    \/ user = NoUser
    \/ /\ User[user].is_authenticated
       /\ (User[user].is_employee \/ User[user].is_staff \/ User[user].is_superuser)

\* the capability test of Order.apply_scan
ActorAllowed(actor) ==
    \/ actor = NoUser
    \/ User[actor].is_employee \/ User[actor].is_staff \/ User[actor].is_superuser

\* a plain get() in place of select_for_update(): no request waits
RowLockIgnored(tn) == TRUE

\* one lock for the whole table in place of the row lock
TableLockFree(tn) == \A t \in TrackingNumbers : lock[t] = 0

\* select_for_update(): the row lock must be free
RowLockFree(tn) == lock[tn] = 0

\* tracking_number without unique=True
UniqueUnchecked(tn) == FALSE

\* the unique index on tracking_number finds a committed row
UniqueViolation(tn) == orders[tn].exists

\* a unique-index insert waits for another transaction's uncommitted insert
InsertPending(p, tn) ==
    \E q \in Procs \ {p} : InFlight(q) /\ call[q].tn = tn /\ tx[q].created

\* tn = (tracking_number or "").strip(), the capability test, and the
\* opening of the atomic block
ScanStart(p, tracking_number, user, raise_on_cooldown, location) ==
    LET tn == strip(tracking_number)
    IN  /\ Serves(p)
        /\ tracking_number \in conf.inputs[p]
        /\ user = NoUser => AnonScans(orders[tn].events) < conf.anon
        /\ IF MayScan(user)
           THEN /\ pc' = [pc EXCEPT ![p] = "scan_get"]
                /\ call' = [call EXCEPT ![p] =
                               [op |-> "scan", tn |-> tn, user |-> user,
                                raise_on_cooldown |-> raise_on_cooldown,
                                location |-> location, age |-> 0]]
                /\ ret' = Arrive(p, "scan", tn, user)
           ELSE /\ pc' = pc
                /\ call' = call
                /\ ret' = Leave([ret EXCEPT ![p] = NoRet], p, "permission_error")
        /\ UNCHANGED <<codeVars, conf, clock, orders, lock, tx>>

\* Order.objects.select_for_update().get(tracking_number=tn): the statement
\* returns the locked row, or raises DoesNotExist, or (no nowait, no
\* skip_locked) sleeps in the database until the row lock is free
ScanGet(p) ==
    /\ pc[p] \in {"scan_get", "scan_wait"}
    /\ LET tn == call[p].tn
       IN  IF orders[tn].exists
           THEN IF RowLockFree(tn)
                THEN /\ lock' = [lock EXCEPT ![tn] = p]
                     /\ pc' = [pc EXCEPT ![p] = "scan_apply"]
                ELSE /\ pc[p] = "scan_get"
                     /\ pc' = [pc EXCEPT ![p] = "scan_wait"]
                     /\ lock' = lock
           ELSE /\ pc' = [pc EXCEPT ![p] = "scan_create"]
                /\ lock' = lock
    /\ UNCHANGED <<codeVars, conf, clock, orders, tx, call, ret>>

\* Order.objects.create(tracking_number=tn, ...): tracking_number is unique
ScanCreate(p) ==
    /\ pc[p] = "scan_create"
    /\ LET tn == call[p].tn
       IN  /\ ~InsertPending(p, tn)
           /\ IF UniqueViolation(tn)
              THEN /\ ret' = Leave(ret, p, "integrity_error")
                   /\ pc' = [pc EXCEPT ![p] = "idle"]
                   /\ call' = [call EXCEPT ![p] = NoCall]
                   /\ tx' = [tx EXCEPT ![p] = NoTx]
              ELSE /\ tx' = [tx EXCEPT ![p] = [NoTx EXCEPT !.created = TRUE]]
                   /\ pc' = [pc EXCEPT ![p] = "scan_apply"]
                   /\ UNCHANGED <<call, ret>>
    /\ UNCHANGED <<codeVars, conf, clock, orders, lock>>

\* the manual event written without the location of the scan
apply_scan_unplaced(events, owner, track, location, actor, now) ==
    IF ~ActorAllowed(actor) THEN [kind |-> "permission_error", event |-> NoEvent]
    ELSE IF ~can_scan(events, now) THEN [kind |-> "cooldown_error", event |-> NoEvent]
    ELSE LET nxt == next_status(events)
         IN  IF nxt = NoStatus THEN [kind |-> "terminal", event |-> NoEvent]
             ELSE [kind |-> "event",
                   event |-> [status |-> IF nxt = "Pribyl v punkt vydachi"
                                         THEN _render_text(ARRIVED_TEMPLATE, owner, track, actor)
                                         ELSE nxt,
                              location |-> "",
                              timestamp |-> now,
                              actor |-> actor]]

\* Order.apply_scan up to the creation of the manual event:
\* "permission_error", "cooldown_error", "terminal" or the event to create
apply_scan(events, owner, track, location, actor, now) ==
    IF ~ActorAllowed(actor) THEN [kind |-> "permission_error", event |-> NoEvent]
    ELSE IF ~can_scan(events, now) THEN [kind |-> "cooldown_error", event |-> NoEvent]
    ELSE LET nxt == next_status(events)
         IN  IF nxt = NoStatus THEN [kind |-> "terminal", event |-> NoEvent]
             ELSE [kind |-> "event",
                   event |-> [status |-> IF nxt = "Pribyl v punkt vydachi"
                                         THEN _render_text(ARRIVED_TEMPLATE, owner, track, actor)
                                         ELSE nxt,
                              location |-> location,
                              timestamp |-> now,
                              actor |-> actor]]

\* the gate without its raise_on_cooldown branch
ScanDecisionSilent(created, raise_on_cooldown, events, owner, track, location, actor, now) ==
    IF ~created /\ ~can_scan(events, now)
    THEN [kind |-> "throttled", event |-> NoEvent]
    ELSE apply_scan(events, owner, track, location, actor, now)

\* the body of handle_scan after the order is fetched or created, up to the
\* manual event: the cooldown gate of handle_scan, then apply_scan
ScanDecision(created, raise_on_cooldown, events, owner, track, location, actor, now) ==
    IF ~created /\ ~can_scan(events, now)
    THEN [kind |-> IF raise_on_cooldown THEN "cooldown_error" ELSE "throttled",
          event |-> NoEvent]
    ELSE apply_scan(events, owner, track, location, actor, now)

\* the row lock kept after the atomic block
ReleaseNever(p, tn) == lock

\* leaving the atomic block: the row lock is released
Release(p, tn) == [lock EXCEPT ![tn] = IF @ = p THEN 0 ELSE @]

\* the order's event set replaced by the transaction's events
CommitReplacing(p, tn, more) ==
    [orders EXCEPT ![tn] = [exists |-> TRUE,
                            rows |-> @.rows + (IF tx[p].created THEN 1 ELSE 0),
                            tracking_number |-> IF tx[p].created THEN tn
                                                ELSE @.tracking_number,
                            user |-> @.user,
                            events |-> tx[p].events \o more]]

\* the scanning user attached to the order as its owner
CommitOwned(p, tn, more) ==
    [orders EXCEPT ![tn] = [exists |-> TRUE,
                            rows |-> @.rows + (IF tx[p].created THEN 1 ELSE 0),
                            tracking_number |-> IF tx[p].created THEN tn
                                                ELSE @.tracking_number,
                            user |-> IF tx[p].created THEN call[p].user ELSE @.user,
                            events |-> @.events \o tx[p].events \o more]]

\* the order's earlier auto-events dropped when new events are written
CommitDroppingAutos(p, tn, more) ==
    [orders EXCEPT ![tn] = [exists |-> TRUE,
                            rows |-> @.rows + (IF tx[p].created THEN 1 ELSE 0),
                            tracking_number |-> IF tx[p].created THEN tn
                                                ELSE @.tracking_number,
                            user |-> @.user,
                            events |-> ManualEvents(@.events) \o tx[p].events \o more]]

\* commit: the transaction's writes become the committed rows
Commit(p, tn, more) ==
    [orders EXCEPT ![tn] = [exists |-> TRUE,
                            rows |-> @.rows + (IF tx[p].created THEN 1 ELSE 0),
                            tracking_number |-> IF tx[p].created THEN tn
                                                ELSE @.tracking_number,
                            user |-> @.user,
                            events |-> @.events \o tx[p].events \o more]]

\* autocommit: the manual event is committed by its insert
WriteAutocommitted(p, tn, event) ==
    [orders |-> [orders EXCEPT ![tn].events = @ \o <<event>>],
     tx     |-> [tx EXCEPT ![p].events = @ \o <<event>>]]

\* TrackingEvent.objects.create inside transaction.atomic(): the row stays
\* with the transaction until its commit
Write(p, tn, event) ==
    [orders |-> orders,
     tx     |-> [tx EXCEPT ![p].events = @ \o <<event>>]]

ScanApply(p) ==
    /\ pc[p] = "scan_apply"
    /\ LET tn  == call[p].tn
           d   == ScanDecision(tx[p].created, call[p].raise_on_cooldown, View(p, tn),
                               orders[tn].user, tn, call[p].location, call[p].user, clock)
       IN  IF d.kind = "event"
           THEN /\ tx' = Write(p, tn, d.event).tx
                /\ orders' = Write(p, tn, d.event).orders
                /\ pc' = [pc EXCEPT ![p] = "scan_auto"]
                /\ ret' = Examined(p)
                /\ UNCHANGED <<lock, call>>
           ELSE /\ ret' = Leave(Examined(p), p, d.kind)
                /\ pc' = [pc EXCEPT ![p] = "idle"]
                /\ call' = [call EXCEPT ![p] = NoCall]
                /\ orders' = IF d.kind \in {"throttled", "terminal"}
                             THEN Commit(p, tn, <<>>) ELSE orders
                /\ lock' = Release(p, tn)
                /\ tx' = [tx EXCEPT ![p] = NoTx]
    /\ UNCHANGED <<codeVars, conf, clock>>

\* self.create_due_auto_events(base_event=ev, actor=actor); return; commit
ScanAuto(p) ==
    /\ pc[p] = "scan_auto"
    /\ LET tn    == call[p].tn
           ev    == tx[p].events[Len(tx[p].events)]
           autos == create_due_auto_events(View(p, tn), orders[tn].user, tn,
                                           ev, call[p].user, clock)
       IN  /\ orders' = Commit(p, tn, autos)
           /\ lock' = Release(p, tn)
    /\ ret' = Leave(ret, p, "event")
    /\ tx' = [tx EXCEPT ![p] = NoTx]
    /\ pc' = [pc EXCEPT ![p] = "idle"]
    /\ call' = [call EXCEPT ![p] = NoCall]
    /\ UNCHANGED <<codeVars, conf, clock>>

(***************************************************************************)
(* OrderClaimAPIView.post                                                  *)
(***************************************************************************)
\* tn = (request.data.get("tracking_number") or "").strip(); 400 if empty
ClaimStart(p, tracking_number, user) ==
    LET tn == strip(tracking_number)
    IN  /\ Serves(p)
        /\ tracking_number \in conf.inputs[p]
        /\ IF tn # ""
           THEN /\ call' = [call EXCEPT ![p] =
                               [op |-> "claim", tn |-> tn, user |-> user,
                                raise_on_cooldown |-> FALSE, location |-> "", age |-> 0]]
                /\ pc' = [pc EXCEPT ![p] = "claim_get"]
                /\ ret' = Arrive(p, "claim", tn, user)
           ELSE /\ pc' = pc
                /\ call' = call
                /\ ret' = Leave([ret EXCEPT ![p] = NoRet], p, "bad_request")
        /\ UNCHANGED <<codeVars, conf, clock, orders, lock, tx>>

\* Order.objects.select_for_update().get(tracking_number=tn), or 404
ClaimGet(p) ==
    /\ pc[p] \in {"claim_get", "claim_wait"}
    /\ LET tn == call[p].tn
       IN  IF orders[tn].exists
           THEN /\ IF RowLockFree(tn)
                   THEN /\ lock' = [lock EXCEPT ![tn] = p]
                        /\ pc' = [pc EXCEPT ![p] = "claim_decide"]
                        /\ tx' = [tx EXCEPT ![p].user = orders[tn].user]
                   ELSE /\ pc[p] = "claim_get"
                        /\ pc' = [pc EXCEPT ![p] = "claim_wait"]
                        /\ UNCHANGED <<lock, tx>>
                /\ UNCHANGED <<ret, call>>
           ELSE /\ ret' = Leave(ret, p, "not_found")
                /\ pc' = [pc EXCEPT ![p] = "idle"]
                /\ call' = [call EXCEPT ![p] = NoCall]
                /\ UNCHANGED <<lock, tx>>
    /\ UNCHANGED <<codeVars, conf, clock, orders>>

\* the 409 branch missing: the order goes to whoever asks
ClaimDecisionTransfer(owner, requester) ==
    IF owner = requester THEN [kind |-> "already_owner", user |-> owner]
    ELSE [kind |-> "claimed", user |-> requester]

\* the three branches on order.user_id: 200 unchanged, 200 assigned, 409
ClaimDecision(owner, requester) ==
    IF owner = requester THEN [kind |-> "already_owner", user |-> owner]
    ELSE IF owner = NoUser THEN [kind |-> "claimed", user |-> requester]
    ELSE [kind |-> "conflict", user |-> owner]

ClaimDecide(p) ==
    /\ pc[p] = "claim_decide"
    /\ LET tn == call[p].tn
           d  == ClaimDecision(tx[p].user, call[p].user)
       IN  /\ orders' = IF d.kind = "claimed"
                        THEN [orders EXCEPT ![tn].user = d.user] ELSE orders
           /\ ret' = Leave(ret, p, d.kind)
           /\ lock' = Release(p, tn)
    /\ tx' = [tx EXCEPT ![p] = NoTx]
    /\ pc' = [pc EXCEPT ![p] = "idle"]
    /\ call' = [call EXCEPT ![p] = NoCall]
    /\ UNCHANGED <<codeVars, conf, clock>>

(***************************************************************************)
(* An explicit re-check: Order.create_due_auto_events called again for a   *)
(* manual event of the order, with that event's actor                      *)
(***************************************************************************)
Recheck(tn, i) ==
    /\ orders[tn].exists
    /\ i \in 1..Len(orders[tn].events)
    /\ IsManual(orders[tn].events[i])
    /\ orders[tn].events[i].timestamp = LastManualTimestamp(orders[tn].events)
    /\ LET base  == orders[tn].events[i]
           autos == create_due_auto_events(orders[tn].events, orders[tn].user, tn,
                                           base, base.actor, clock)
       IN  orders' = [orders EXCEPT ![tn].events = @ \o autos]
    /\ UNCHANGED <<codeVars, conf, clock, lock, tx, pc, call, ret>>

(***************************************************************************)
(* OrderFindAPIView.get                                                    *)
(***************************************************************************)
\* is_owner = (order.user_id == request.user.id);
\* can_claim = (order.user_id is None) or is_owner
FindFlags(owner, requester) ==
    [is_owner |-> owner = requester,
     can_claim |-> owner = NoUser \/ owner = requester]

\* 400 without a parameter; the order fetched by the stripped parameter with
\* a plain get(), no lock and no transaction; 404 or the order's flags.
\* With requests in parallel the answer is not recorded.
Find(p, tracking_number, user) ==
    /\ Serves(p)
    /\ tracking_number \in conf.inputs[p]
    /\ LET tn    == strip(tracking_number)
           flags == FindFlags(orders[tn].user, user)
           kind  == IF tracking_number = "" THEN "bad_request"
                    ELSE IF orders[tn].exists THEN "found" ELSE "find_not_found"
       IN  ret' = [ret EXCEPT ![p] =
                      IF ~conf.solo THEN @
                      ELSE IF kind = "found"
                           THEN [NoRet EXCEPT !.kind = kind, !.tn = tn, !.user = user,
                                              !.is_owner = flags.is_owner,
                                              !.can_claim = flags.can_claim]
                           ELSE [NoRet EXCEPT !.kind = kind]]
    /\ UNCHANGED <<codeVars, conf, clock, orders, lock, tx, pc, call>>

\* the outcome of a finished call is observed in the minute it ends; the
\* record of a paired call is kept while its partner is still running
Forget ==
    [p \in Procs |->
        IF InFlight(p) \/ (ret[p].paired /\ \E q \in Procs \ {p} : InFlight(q))
        THEN ret[p] ELSE NoRet]

\* the clock's origin is the insertion of the first order
Started ==
    \/ \E tn \in TrackingNumbers : orders[tn].exists
    \/ \E p \in Procs : tx[p].created

Tick ==
    /\ Started
    /\ clock < conf.horizon
    /\ \A p \in Procs : InFlight(p) => call[p].age < conf.flight
    /\ clock' = clock + conf.step
    /\ call' = [p \in Procs |->
                  IF InFlight(p) THEN [call[p] EXCEPT !.age = @ + 1] ELSE call[p]]
    /\ ret' = Forget
    /\ UNCHANGED <<codeVars, conf, orders, lock, tx, pc>>

MaxEvents == 12

Next ==
    \/ \E p \in Procs, tracking_number \in RawTrackingNumbers, user \in Scanners,
          raise_on_cooldown \in BOOLEAN, location \in Locations :
            ScanStart(p, tracking_number, user, raise_on_cooldown, location)
    \/ \E p \in Procs : ScanGet(p)
    \/ \E p \in Procs : ScanCreate(p)
    \/ \E p \in Procs : ScanApply(p)
    \/ \E p \in Procs : ScanAuto(p)
    \/ \E p \in Procs, tracking_number \in RawTrackingNumbers, user \in Claimers :
            ClaimStart(p, tracking_number, user)
    \/ \E p \in Procs : ClaimGet(p)
    \/ \E p \in Procs : ClaimDecide(p)
    \/ \E p \in Procs, tracking_number \in RawTrackingNumbers, user \in Claimers :
            Find(p, tracking_number, user)
    \/ \E tn \in TrackingNumbers, i \in 1..MaxEvents : Recheck(tn, i)
    \/ Tick

Spec == Init /\ [][Next]_vars

SpecAnon == InitAnon /\ [][Next]_vars

SpecBlank == InitBlank /\ [][Next]_vars

SpecTwo == InitTwo /\ [][Next]_vars

\* the events of order "AB123" after an employee's accepted scans at the
\* minutes of times
RECURSIVE ScannedAt(_)
ScannedAt(times) ==
    IF times = <<>> THEN <<>>
    ELSE LET now    == times[Len(times)]
             events == ScannedAt(SubSeq(times, 1, Len(times) - 1))
             d      == apply_scan(events, NoUser, "AB123", "Guangzhou", "emp", now)
             more   == events \o <<d.event>>
         IN  more \o create_due_auto_events(more, NoUser, "AB123", d.event, "emp", now)

\* two requests in parallel, a request taking up to MaxFlight minutes:
\* either the tables are empty, or the order has been scanned once, one
\* cooldown window ago; MaxTimeConc minutes pass from there
InitConc ==
    \E times \in {<<>>, <<0>>} :
        LET start == IF times = <<>> THEN 0 ELSE SCAN_COOLDOWN_MINUTES
        IN  /\ conf = [procs |-> Procs, horizon |-> start + MaxTimeConc,
                       flight |-> MaxFlight, anon |-> 0,
                       inputs |-> Everyone({"AB123"}), solo |-> FALSE, step |-> 1]
            /\ clock = start
            /\ orders = [tn \in TrackingNumbers |->
                           IF tn = "AB123" /\ times # <<>>
                           THEN [exists |-> TRUE, rows |-> 1, tracking_number |-> tn,
                                 user |-> NoUser, events |-> ScannedAt(times)]
                           ELSE NoOrder]
            /\ lock = [tn \in TrackingNumbers |-> 0]
            /\ tx = [p \in Procs |-> NoTx]
            /\ pc = [p \in Procs |-> "idle"]
            /\ call = [p \in Procs |-> NoCall]
            /\ ret = [p \in Procs |-> NoRet]
            /\ InitCodes

SpecConc == InitConc /\ [][Next]_vars

\* two requests in parallel under fair scheduling, each served within the
\* minute it arrives in, the clock read once per cooldown window; either
\* the order has been scanned three times, the third time just now, or the
\* tables are empty and the clock is at its last value
InitLive ==
    /\ conf = [procs |-> Procs, horizon |-> MaxTimeLive, flight |-> 0, anon |-> 0,
               inputs |-> Everyone({"AB123"}), solo |-> FALSE,
               step |-> SCAN_COOLDOWN_MINUTES]
    /\ \/ /\ clock = 10
          /\ orders = [tn \in TrackingNumbers |->
                         IF tn = "AB123"
                         THEN [exists |-> TRUE, rows |-> 1, tracking_number |-> tn,
                               user |-> NoUser, events |-> ScannedAt(<<0, 5, 10>>)]
                         ELSE NoOrder]
       \/ /\ clock = MaxTimeLive
          /\ orders = [tn \in TrackingNumbers |-> NoOrder]
    /\ lock = [tn \in TrackingNumbers |-> 0]
    /\ tx = [p \in Procs |-> NoTx]
    /\ pc = [p \in Procs |-> "idle"]
    /\ call = [p \in Procs |-> NoCall]
    /\ ret = [p \in Procs |-> NoRet]
    /\ InitCodes

\* the scanned order the fair scenario starts with, which the single
\* handler reaches from the empty tables
LiveStart == clock = 10 /\ orders["AB123"].events = ScannedAt(<<0, 5, 10>>)

(***************************************************************************)
(* User.assign_client_code (users without lc_number)                       *)
(***************************************************************************)
\* str(n) for n >= 0
RECURSIVE str(_)
str(n) ==
    LET digit == <<"0", "1", "2", "3", "4", "5", "6", "7", "8", "9">>[(n % 10) + 1]
    IN  IF n < 10 THEN digit ELSE str(n \div 10) \o digit

RECURSIVE zfill(_, _)
zfill(s, width) == IF Len(s) >= width THEN s ELSE zfill("0" \o s, width)

\* f"{pp.code_label}-{self.region_code or pp.region_code}-{pp.branch_code}"
base_code(pp) ==
    PickupPoint[pp].code_label \o "-" \o PickupPoint[pp].region_code
        \o "-" \o PickupPoint[pp].branch_code

candidate_code(pp, candidate_lc) ==
    base_code(pp) \o "(" \o PickupPoint[pp].lc_prefix \o "-" \o candidate_lc \o ")"

\* counter, _ = ClientCodeCounter.objects.get_or_create(pickup_point=pp):
\* the row is read without a lock
AssignStart(u, save) ==
    /\ assign[u].pc = "new"
    /\ assign' = [assign EXCEPT ![u] = [NoAssign EXCEPT !.pc = "loop", !.save = save,
                                                         !.last_number = last_number]]
    /\ UNCHANGED <<conf, clock, orders, lock, tx, pc, call, ret, last_number, clients>>

\* one turn of the loop up to the try block: the next number, the candidate
\* and User.objects.filter(client_code=candidate_code).exists()
AssignCheck(u) ==
    /\ assign[u].pc = "loop"
    /\ LET n         == assign[u].last_number + 1
           lc        == zfill(str(n), 4)
           candidate == candidate_code("bishkek", lc)
       IN  IF \E v \in NewUsers : clients[v].client_code = candidate
           THEN assign' = [assign EXCEPT ![u].last_number = n]
           ELSE assign' = [assign EXCEPT ![u].last_number = n, ![u].pc = "save",
                                         ![u].lc_number = lc,
                                         ![u].client_code = candidate]
    /\ UNCHANGED <<conf, clock, orders, lock, tx, pc, call, ret, last_number, clients>>

\* with transaction.atomic(): counter.save(update_fields=["last_number"]) and,
\* if save, self.save(...); client_code has no unique index, so the block
\* raises no IntegrityError and the loop ends
AssignSave(u) ==
    /\ assign[u].pc = "save"
    /\ last_number' = assign[u].last_number
    /\ IF assign[u].save
       THEN /\ clients' = [clients EXCEPT ![u] = [lc_number |-> assign[u].lc_number,
                                                  client_code |-> assign[u].client_code]]
            /\ assign' = [assign EXCEPT ![u].pc = "done"]
       ELSE /\ clients' = clients
            /\ assign' = [assign EXCEPT ![u].pc = "caller"]
    /\ UNCHANGED <<conf, clock, orders, lock, tx, pc, call, ret>>

\* assign_client_code(save=False): the caller saves the user afterwards
\* (UserManager._create_user, the pre_save receiver)
CallerSave(u) ==
    /\ assign[u].pc = "caller"
    /\ clients' = [clients EXCEPT ![u] = [lc_number |-> assign[u].lc_number,
                                          client_code |-> assign[u].client_code]]
    /\ assign' = [assign EXCEPT ![u].pc = "done"]
    /\ UNCHANGED <<conf, clock, orders, lock, tx, pc, call, ret, last_number>>

NextCodes ==
    \/ \E u \in NewUsers, save \in BOOLEAN : AssignStart(u, save)
    \/ \E u \in NewUsers : AssignCheck(u)
    \/ \E u \in NewUsers : AssignSave(u)
    \/ \E u \in NewUsers : CallerSave(u)

\* registrations in parallel, no order traffic
SpecCodes == Init /\ [][NextCodes]_vars

\* the next step of the call request p has in flight
Run(p) ==
    \/ ScanGet(p) \/ ScanCreate(p) \/ ScanApply(p) \/ ScanAuto(p)
    \/ ClaimGet(p) \/ ClaimDecide(p)

\* A request in flight keeps running, and the database hands a freed row
\* lock to a request sleeping on it: a request whose next step is possible
\* again and again takes it.
Fairness == \A p \in Procs : SF_vars(Run(p))

SpecLive == InitLive /\ [][Next]_vars /\ Fairness

(***************************************************************************)
(* Properties                                                              *)
(***************************************************************************)
ScanOutcomes == {"event", "throttled", "cooldown_error", "terminal", "integrity_error"}
Rejections == {"throttled", "cooldown_error"}

\* p and q have both returned from scans of one tracking number that ran in
\* parallel
PairedScans(p, q) ==
    /\ p # q
    /\ ~InFlight(p) /\ ~InFlight(q)
    /\ ret[p].paired /\ ret[q].paired
    /\ ret[p].tn = ret[q].tn
    /\ ret[p].kind \in ScanOutcomes /\ ret[q].kind \in ScanOutcomes

\* the two calls examined the order less than one cooldown window apart
WithinWindow(p, q) ==
    /\ ret[p].at < ret[q].at + SCAN_COOLDOWN_MINUTES
    /\ ret[q].at < ret[p].at + SCAN_COOLDOWN_MINUTES

\* C1: two scans by authorised employees running in parallel, within one
\* cooldown window, on an existing order that is not terminal and past its
\* cooldown: exactly one of them creates a manual event, the other is rejected
\* for cooldown, and the order's progress advances by exactly one step.
C1_ParallelScansOneEvent ==
    \A p, q \in Procs :
        ( /\ PairedScans(p, q)
          /\ ret[p].ready /\ ret[q].ready
          /\ WithinWindow(p, q) )
        => /\ \/ ret[p].kind = "event" /\ ret[q].kind \in Rejections
              \/ ret[q].kind = "event" /\ ret[p].kind \in Rejections
           /\ ret[p].before = ret[q].before
           /\ Progress(orders[ret[p].tn].events) = ret[p].before + 1
           /\ Len(ManualEvents(orders[ret[p].tn].events)) = ret[p].before + 1

C1_Witness ==
    \E p, q \in Procs :
        /\ PairedScans(p, q)
        /\ ret[p].ready /\ ret[q].ready
        /\ WithinWindow(p, q)
        /\ ret[p].kind = "event" /\ ret[q].kind = "throttled"
        /\ ret[q].at > ret[p].at

\* C2: two scans by authorised employees running in parallel for a tracking
\* number that has no order yet: exactly one order with exactly one manual
\* event (step 1) results, and the other call is throttled.
C2_ParallelFirstScans ==
    \A p, q \in Procs :
        ( /\ PairedScans(p, q)
          /\ ~ret[p].existed /\ ~ret[q].existed
          /\ WithinWindow(p, q) )
        => /\ \/ ret[p].kind = "event" /\ ret[q].kind \in Rejections
              \/ ret[q].kind = "event" /\ ret[p].kind \in Rejections
           /\ orders[ret[p].tn].exists
           /\ Len(ManualEvents(orders[ret[p].tn].events)) = 1
           /\ ManualEvents(orders[ret[p].tn].events)[1].status = STATUS_FLOW[1]

\* request p takes its ScanApply step (the cooldown gate and apply_scan)
ScanApplyStep(p) == pc[p] = "scan_apply" /\ pc'[p] # "scan_apply"

\* the order has a manual event and the most recent one is younger than the
\* cooldown window
InCooldown(events, now) ==
    \E i \in 1..Len(events) :
        /\ events[i].actor # NoUser
        /\ \A j \in 1..Len(events) :
              events[j].actor # NoUser => events[j].timestamp <= events[i].timestamp
        /\ now < events[i].timestamp + SCAN_COOLDOWN_MINUTES

\* C3: a scan of an order whose progress is terminal (all 4 steps have a
\* manual event) hands back no event and adds no event, manual or auto; when
\* the cooldown has elapsed it ends as a plain no-op, without an error.
C3_TerminalNoOp ==
    [][ \A p \in Procs :
          ( /\ ScanApplyStep(p)
            /\ Progress(orders[call[p].tn].events) = Len(STATUS_FLOW) )
          => /\ orders' = orders
             /\ tx'[p] = NoTx
             /\ pc'[p] = "idle"
             /\ ret'[p].kind \in {"terminal", "throttled", "cooldown_error"}
             /\ ~InCooldown(orders[call[p].tn].events, clock)
                   => ret'[p].kind = "terminal" ]_vars

C3_Witness ==
    \E p \in Procs, tn \in TrackingNumbers :
        /\ ret[p].kind = "terminal"
        /\ Progress(orders[tn].events) = Len(STATUS_FLOW)
        /\ Len(ManualEvents(orders[tn].events)) = Len(STATUS_FLOW)

\* C4: over every step (scan, claim, re-check, accepted or rejected) the
\* progress of every order never decreases.
C4_ProgressMonotone ==
    [][ \A tn \in TrackingNumbers :
          Progress(orders'[tn].events) >= Progress(orders[tn].events) ]_vars

C4_Witness ==
    \E p \in Procs, tn \in TrackingNumbers :
        /\ Progress(orders[tn].events) = 3
        /\ orders[tn].user # NoUser
        /\ ret[p].kind \in Rejections

\* C5: the manual events of an order, in creation order, carry STATUS_FLOW
\* steps 1, 2, 3, 4 in that order, none skipped or repeated (step 3 as the
\* expanded text); so there are at most 4 and the 4th is "Poluchen".
C5_ManualEventsFollowFlow ==
    \A tn \in TrackingNumbers :
        LET m == ManualEvents(orders[tn].events)
        IN  /\ Len(m) <= Len(STATUS_FLOW)
            /\ \A i \in 1..Len(m) :
                  IF i = 3
                  THEN /\ StartsWith(m[i].status, "Tovar pribyl v punkt vydachi [")
                       /\ m[i].status \notin {STATUS_FLOW[k] : k \in 1..Len(STATUS_FLOW)}
                  ELSE m[i].status = STATUS_FLOW[i]

C5_Witness ==
    \E tn \in TrackingNumbers :
        LET m == ManualEvents(orders[tn].events)
        IN  Len(m) = 4 /\ m[4].status = "Poluchen"

IsAuto(e) == e.actor = NoUser /\ e.location = "(avto)"

\* C6: a scan of an existing order is rejected for cooldown exactly when the
\* order's most recent manual event is younger than the cooldown window; at
\* the boundary it is not rejected, without a manual event it is never
\* rejected, and auto-events do not count.
C6_RejectedIffInCooldown ==
    [][ \A p \in Procs :
          ( ScanApplyStep(p) /\ ~tx[p].created )
          => ( ret'[p].kind \in Rejections
                 <=> InCooldown(orders[call[p].tn].events, clock) ) ]_vars

\* an order first scanned without a user, then by an employee in the same
\* minute, then again exactly one cooldown later, an auto-event dated in
\* between being there already
C6_Witness ==
    \E tn \in TrackingNumbers :
        LET ev == orders[tn].events
            m  == ManualEvents(ev)
        IN  /\ Len(m) = 2
            /\ ev[1].actor = NoUser /\ ~IsAuto(ev[1])
            /\ m[1].timestamp = ev[1].timestamp
            /\ m[2].timestamp = m[1].timestamp + SCAN_COOLDOWN_MINUTES
            /\ \E i, j \in 1..Len(ev) :
                  /\ i < j
                  /\ IsAuto(ev[i]) /\ ev[i].timestamp > m[1].timestamp
                  /\ ev[j] = m[2]

\* C7: a scan rejected for cooldown leaves the order and its events as they
\* were and writes nothing; without raise_on_cooldown it returns (order, None)
\* ("throttled"), with it it fails with the throttling error.
C7_RejectionChangesNothing ==
    [][ \A p \in Procs :
          ( /\ ScanApplyStep(p)
            /\ ~tx[p].created
            /\ InCooldown(orders[call[p].tn].events, clock) )
          => /\ orders' = orders
             /\ tx'[p] = NoTx
             /\ pc'[p] = "idle"
             /\ lock'[call[p].tn] = 0
             /\ ret'[p].kind = IF call[p].raise_on_cooldown
                               THEN "cooldown_error" ELSE "throttled" ]_vars

C7_Witness ==
    \E p \in Procs, tn \in TrackingNumbers :
        /\ ret[p].kind = "cooldown_error"
        /\ Len(ManualEvents(orders[tn].events)) = 2
        /\ InCooldown(orders[tn].events, clock)

\* C8: create_due_auto_events called again for the manual event that
\* triggered it, in the minute of that scan (so no template has come due
\* since and no manual scan has happened in between), creates no event,
\* whatever else (a claim, say) happened in between.
C8_SecondCallCreatesNothing ==
    [][ \A tn \in TrackingNumbers, i \in 1..MaxEvents :
          ( /\ Recheck(tn, i)
            /\ orders[tn].events[i].timestamp = clock )
          => orders'[tn].events = orders[tn].events ]_vars

\* the texts a template can be rendered to
Renderings(tpl, track) ==
    { _render_text(tpl.text, owner, track, actor) :
        owner \in Users \cup {NoUser}, actor \in Users \cup {NoUser} }

\* C9: an active template of phase N that was not yet due when manual step N
\* was scanned is there as an auto-event once a later scan of the order,
\* made after its due time, has been accepted.
C9_LateTemplatesMaterialised ==
    \A tn \in TrackingNumbers :
        LET m == ManualEvents(orders[tn].events)
        IN  \A n \in 1..Len(m) :
              \A tpl \in AutoStatusTemplate :
                ( /\ tpl.is_active
                  /\ tpl.phase = PhaseOf(m[n].status)
                  /\ tpl.offset_minutes > 0
                  /\ n < Len(m)
                  /\ m[n].timestamp + tpl.offset_minutes <= m[Len(m)].timestamp )
                => \E i \in 1..Len(orders[tn].events) :
                      /\ IsAuto(orders[tn].events[i])
                      /\ orders[tn].events[i].timestamp
                            = m[n].timestamp + tpl.offset_minutes
                      /\ orders[tn].events[i].status \in Renderings(tpl, tn)

\* request p takes its ClaimDecide step
ClaimDecideStep(p) == pc[p] = "claim_decide" /\ pc'[p] # "claim_decide"

\* C10: a claim by the owner succeeds and changes nothing; a claim of an
\* ownerless order makes the requester its owner; a claim by anyone else fails
\* with a conflict and changes nothing.  Over every step, an owner once set
\* never changes.
C10_ClaimRules ==
    [][ /\ \A p \in Procs :
             ClaimDecideStep(p) =>
               LET tn        == call[p].tn
                   owner     == orders[tn].user
                   requester == call[p].user
               IN  /\ owner = requester
                        => ret'[p].kind = "already_owner" /\ orders' = orders
                   /\ owner = NoUser
                        => /\ ret'[p].kind = "claimed"
                           /\ orders' = [orders EXCEPT ![tn].user = requester]
                   /\ owner \notin {requester, NoUser}
                        => ret'[p].kind = "conflict" /\ orders' = orders
        /\ \A tn \in TrackingNumbers :
             orders[tn].user # NoUser => orders'[tn].user = orders[tn].user ]_vars

C10_Witness ==
    \E p \in Procs, tn \in TrackingNumbers :
        /\ ret[p].kind = "conflict"
        /\ orders[tn].user # NoUser
        /\ Progress(orders[tn].events) >= 1

ClaimOutcomes == {"claimed", "already_owner", "conflict", "not_found"}

\* p and q have both returned from claims of one tracking number that ran in
\* parallel
PairedClaims(p, q) ==
    /\ p # q
    /\ ~InFlight(p) /\ ~InFlight(q)
    /\ ret[p].paired /\ ret[q].paired
    /\ ret[p].tn = ret[q].tn
    /\ ret[p].kind \in ClaimOutcomes /\ ret[q].kind \in ClaimOutcomes

\* C11: two distinct users claiming in parallel an order that had no owner
\* when each of them arrived: exactly one claim succeeds and that user is the
\* owner, the other claim fails with a conflict.
C11_ParallelClaimsOneOwner ==
    \A p, q \in Procs :
        ( /\ PairedClaims(p, q)
          /\ ret[p].ready /\ ret[q].ready
          /\ ret[p].user # ret[q].user )
        => \/ /\ ret[p].kind = "claimed" /\ ret[q].kind = "conflict"
              /\ orders[ret[p].tn].user = ret[p].user
           \/ /\ ret[q].kind = "claimed" /\ ret[p].kind = "conflict"
              /\ orders[ret[p].tn].user = ret[q].user

\* the request that arrived second wins
C11_Witness ==
    \E tn \in TrackingNumbers :
        /\ PairedClaims(1, 2)
        /\ ret[1].ready /\ ret[2].ready
        /\ ret[1].user = "cli" /\ ret[2].user = "cli2"
        /\ ret[1].kind = "conflict" /\ ret[2].kind = "claimed"
        /\ ret[1].tn = tn
        /\ orders[tn].user = "cli2"

\* a user without the employee, staff or admin capability
LacksCapability(user) ==
    /\ user # NoUser
    /\ ~(User[user].is_employee \/ User[user].is_staff \/ User[user].is_superuser)

\* C12: handle_scan for a user without the employee/staff/admin capability
\* fails with the authorization error and changes nothing: no order is
\* created, no event is added, no lock or transaction is left behind.
C12_UnauthorisedScanRejected ==
    [][ \A p \in Procs, tracking_number \in RawTrackingNumbers, user \in Scanners,
           raise_on_cooldown \in BOOLEAN, location \in Locations :
          ( /\ ScanStart(p, tracking_number, user, raise_on_cooldown, location)
            /\ LacksCapability(user) )
          => /\ ret'[p].kind = "permission_error"
             /\ pc'[p] = "idle"
             /\ orders' = orders
             /\ tx' = tx
             /\ lock' = lock ]_vars

\* refused for a tracking number never seen, and for an order that exists
C12_Witness ==
    \E p \in Procs :
        /\ ret[p].kind = "permission_error"
        /\ ~orders["CD456"].exists
        /\ orders["AB123"].exists
        /\ Len(orders["AB123"].events) = 2

\* C13: handle_scan strips the tracking number; when nothing is left it fails
\* with a validation error and creates neither an order nor an event.
C13_BlankTrackingNumberRejected ==
    [][ /\ \A p \in Procs, tracking_number \in RawTrackingNumbers, user \in Scanners,
              raise_on_cooldown \in BOOLEAN, location \in Locations :
             ( /\ ScanStart(p, tracking_number, user, raise_on_cooldown, location)
               /\ MayScan(user)
               /\ strip(tracking_number) = "" )
             => /\ ret'[p].kind = "validation_error"
                /\ pc'[p] = "idle"
        /\ orders'[""] = NoOrder
        /\ \A tn \in TrackingNumbers :
             orders'[tn].exists => orders'[tn].tracking_number = tn ]_vars

\* request p takes a step of a scan it has in flight
ScanStep(p) == call[p].op = "scan" /\ pc'[p] # pc[p]

\* C14: handle_scan never sets or changes an order's owner: an order created
\* by a scan has no owner, and no step of a scan, whoever the actor is,
\* changes the owner of an existing order.
C14_ScanLeavesOwner ==
    [][ \A tn \in TrackingNumbers :
          /\ (~orders[tn].exists /\ orders'[tn].exists) => orders'[tn].user = NoUser
          /\ (\E p \in Procs : ScanStep(p) /\ call[p].tn = tn)
                => orders'[tn].user = orders[tn].user ]_vars

\* an order created by an employee's scan, claimed by a client, and scanned
\* again by the employee, still the client's
C14_Witness ==
    \E tn \in TrackingNumbers :
        LET m == ManualEvents(orders[tn].events)
        IN  /\ Len(m) = 2
            /\ m[1].actor = "emp" /\ m[2].actor = "emp"
            /\ orders[tn].user = "cli"
            /\ \E i \in 1..Len(orders[tn].events) :
                  orders[tn].events[i].status = "Gotovitsya k otpravke v Bishkek"

\* C15: no two orders share a tracking number, also after first scans of one
\* tracking number in parallel, and an order carries the tracking number it
\* was created with.
C15_TrackingNumberUnique ==
    \A tn \in TrackingNumbers :
        /\ orders[tn].rows <= 1
        /\ orders[tn].exists <=> orders[tn].rows = 1
        /\ orders[tn].exists => orders[tn].tracking_number = tn

\* two first scans of one tracking number in parallel have both returned
C15_Witness ==
    \E p, q \in Procs :
        /\ PairedScans(p, q)
        /\ ~ret[p].existed /\ ~ret[q].existed
        /\ ret[p].kind = "event" /\ ret[q].kind = "integrity_error"
        /\ orders[ret[p].tn].rows = 1
        /\ Len(orders[ret[p].tn].events) = 2

\* C16: events are append-only: over every step of a scan, a claim or a
\* re-check, accepted or rejected, the events an order had are still there,
\* in the same order, with the same status, timestamp, actor and location.
C16_EventsAppendOnly ==
    [][ \A tn \in TrackingNumbers :
          /\ Len(orders'[tn].events) >= Len(orders[tn].events)
          /\ SubSeq(orders'[tn].events, 1, Len(orders[tn].events))
                = orders[tn].events ]_vars

\* an order with manual and auto events of three scans, claimed, on which a
\* scan has just been rejected
C16_Witness ==
    \E p \in Procs, tn \in TrackingNumbers :
        /\ ret[p].kind \in Rejections
        /\ orders[tn].user # NoUser
        /\ Len(ManualEvents(orders[tn].events)) = 3
        /\ Len(orders[tn].events) >= 6

\* request p's select_for_update() finds the row locked by another request
FindsLocked(p) ==
    /\ pc[p] \in {"scan_get", "claim_get"}
    /\ orders[call[p].tn].exists
    /\ lock[call[p].tn] \notin {0, p}

\* C17: a scan or a claim that finds the order's lock held by another request
\* in flight fails at once instead of waiting for the lock.
C17_LockedOrderFailsFast ==
    [][ \A p \in Procs :
          ( FindsLocked(p) /\ pc'[p] # pc[p] )
          => /\ pc'[p] = "idle"
             /\ ret'[p].kind = "lock_error" ]_vars

\* no other request in flight works on p's tracking number
AloneOnOrder(p) ==
    \A q \in Procs \ {p} : InFlight(q) => call[q].tn # call[p].tn

\* C18: a scan or claim in flight on one order never blocks a scan or claim
\* of another tracking number: a request that is alone on its tracking number
\* obtains its row or inserts it without sleeping, whatever the other request
\* holds (past that point a request holds what it needs and only runs on).
C18_OtherOrdersNotBlocked ==
    \A p \in Procs :
        ( InFlight(p) /\ AloneOnOrder(p) )
        => /\ pc[p] \in {"scan_get", "scan_wait"}
                 => ENABLED (ScanGet(p) /\ pc'[p] # "scan_wait")
           /\ pc[p] \in {"claim_get", "claim_wait"}
                 => ENABLED (ClaimGet(p) /\ pc'[p] # "claim_wait")
           /\ pc[p] = "scan_create" => ENABLED ScanCreate(p)
           /\ pc[p] \in {"scan_apply", "scan_auto", "claim_decide"}
                 => lock[call[p].tn] = p \/ tx[p].created

\* each request holds the row lock of its own order
C18_Witness ==
    /\ lock["AB123"] = 1
    /\ lock["CD456"] = 2
    /\ pc[1] = "scan_apply"
    /\ pc[2] = "claim_decide"

\* C19: every scan and claim returns, on every exit path, and a request that
\* has returned holds no row lock and no open transaction; so, under fair
\* scheduling, a request sleeping on the lock of an order goes on.
C19_OperationsTerminate ==
    /\ [](\A tn \in TrackingNumbers :
            lock[tn] # 0 => InFlight(lock[tn]) /\ call[lock[tn]].tn = tn)
    /\ [](\A p \in Procs : ~InFlight(p) => tx[p] = NoTx)
    /\ \A p \in Procs : InFlight(p) ~> ~InFlight(p)

\* a claim sleeps on the row lock held by a scan of a terminal order
C19_Witness ==
    \E tn \in TrackingNumbers :
        /\ Progress(orders[tn].events) = Len(STATUS_FLOW)
        /\ lock[tn] = 1
        /\ pc[1] = "scan_apply"
        /\ pc[2] = "claim_wait"

\* request p takes its ScanAuto step (auto-events, commit, return)
ScanAutoStep(p) == pc[p] = "scan_auto" /\ pc'[p] = "idle"

\* C20: a scan by an authorised employee returns (order, None) only if the
\* order is terminal or inside its cooldown window; in every other case it
\* creates a manual event with the next STATUS_FLOW step (the third one in
\* its rendered form), the given location, the actor and the current time,
\* and returns it with the event committed as the order's latest manual
\* event.
C20_ScanReturnsEventOrNone ==
    [][ \A p \in Procs :
          /\ ( ScanApplyStep(p) /\ call[p].user # NoUser )
             => LET events   == View(p, call[p].tn)
                    terminal == Progress(events) = Len(STATUS_FLOW)
                    cooling  == InCooldown(events, clock)
                IN  /\ ret'[p].kind \in {"terminal", "throttled"}
                          => terminal \/ cooling
                    /\ ret'[p].kind = "terminal" => terminal
                    /\ ret'[p].kind = "throttled" => cooling
                    /\ ~terminal /\ ~cooling
                          => /\ pc'[p] = "scan_auto"
                             /\ Len(tx'[p].events) = Len(tx[p].events) + 1
                             /\ LET ev == tx'[p].events[Len(tx'[p].events)]
                                IN  /\ matches(STATUS_FLOW[Progress(events) + 1], ev.status)
                                    /\ ev.location = call[p].location
                                    /\ ev.actor = call[p].user
                                    /\ ev.timestamp = clock
          /\ ( ScanAutoStep(p) /\ call[p].user # NoUser )
             => LET tn     == call[p].tn
                    ev     == tx[p].events[Len(tx[p].events)]
                    before == ManualEvents(orders[tn].events)
                    after  == ManualEvents(orders'[tn].events)
                IN  /\ ret'[p].kind = "event"
                    /\ after = before \o <<ev>>
                    /\ Progress(orders'[tn].events) = Progress(orders[tn].events) + 1 ]_vars

\* an employee's scan at a named location has returned the third step's
\* event, and a later scan of the order has returned (order, None)
C20_Witness ==
    \E p \in Procs, tn \in TrackingNumbers :
        LET m == ManualEvents(orders[tn].events)
        IN  /\ ret[p].kind = "throttled"
            /\ Len(m) = 3
            /\ StartsWith(m[3].status, ARRIVED_PREFIX)
            /\ m[3].location = "Guangzhou"
            /\ m[3].actor = "emp"
            /\ m[3].timestamp < clock

\* what a claim of user answers when it runs alone in the current state
ClaimAlone(tracking_number, user) ==
    LET tn == strip(tracking_number)
    IN  IF tn = "" THEN "bad_request"
        ELSE IF ~orders[tn].exists THEN "not_found"
        ELSE ClaimDecision(orders[tn].user, user).kind

\* C21: Find changes no state; for an unknown tracking number it answers
\* not-found; for an order it reports is_owner exactly when the owner is the
\* requester and can_claim exactly when the owner is unset or the requester,
\* and can_claim is true exactly when a claim by the same requester with the
\* same tracking number, run next, succeeds.
C21_FindFlags ==
    [][ \A p \in Procs, tracking_number \in RawTrackingNumbers, user \in Claimers :
          /\ Find(p, tracking_number, user)
             => LET tn == strip(tracking_number)
                IN  /\ UNCHANGED <<orders, lock, tx, pc, call>>
                    /\ ~orders[tn].exists => ret'[p].kind = "find_not_found"
                    /\ orders[tn].exists
                          => /\ ret'[p].kind = "found"
                             /\ ret'[p].is_owner <=> orders[tn].user = user
                             /\ ret'[p].can_claim
                                   <=> (orders[tn].user = NoUser \/ orders[tn].user = user)
                             /\ ret'[p].can_claim
                                   <=> ClaimAlone(tracking_number, user)
                                          \in {"claimed", "already_owner"}
          /\ ClaimDecideStep(p)
             => ret'[p].kind = ClaimAlone(call[p].tn, call[p].user)
          /\ ( ClaimStart(p, tracking_number, user) /\ pc'[p] = "idle" )
             => ret'[p].kind = ClaimAlone(tracking_number, user) ]_vars

\* the phase tag of the templates that follow manual step n
PhaseAfter(n) == <<"AFTER_SCAN_1", "AFTER_SCAN_2", "AFTER_SCAN_3", "AFTER_SCAN_4">>[n]

\* the auto-events request p commits with its ScanAuto step
AutosOf(p) ==
    LET tn == call[p].tn
    IN  SubSeq(orders'[tn].events,
               Len(orders[tn].events) + Len(tx[p].events) + 1,
               Len(orders'[tn].events))

\* C22: the scan that has created the manual event of step N materialises
\* exactly the active templates of phase AFTER_SCAN_N whose due time has come
\* and whose rendered text is not among the order's events, in order_index
\* order, as auto-events; nothing of an inactive template or of another
\* phase; the rendered step-3 event counts as step 3.
C22_DueTemplatesOfPhase ==
    [][ \A p \in Procs :
          ScanAutoStep(p)
          => LET tn     == call[p].tn
                 ev     == tx[p].events[Len(tx[p].events)]
                 n      == CHOOSE i \in 1..Len(STATUS_FLOW) : matches(STATUS_FLOW[i], ev.status)
                 seen   == Statuses(View(p, tn))
                 text(t) == _render_text(t.text, orders[tn].user, tn, call[p].user)
                 due    == {t \in AutoStatusTemplate :
                               /\ t.phase = PhaseAfter(n)
                               /\ t.is_active
                               /\ ev.timestamp + t.offset_minutes <= clock
                               /\ text(t) \notin seen}
                 autos  == AutosOf(p)
             IN  /\ \E i \in 1..Len(STATUS_FLOW) : matches(STATUS_FLOW[i], ev.status)
                 /\ Len(autos) = Cardinality(due)
                 /\ \A t \in due : \E i \in 1..Len(autos) :
                        /\ autos[i].status = text(t)
                        /\ autos[i].timestamp = ev.timestamp + t.offset_minutes
                        /\ \A u \in due : \A j \in 1..Len(autos) :
                              (autos[j].status = text(u) /\ t.order_index < u.order_index)
                                 => i < j
                 /\ \A i \in 1..Len(autos) :
                        /\ IsAuto(autos[i])
                        /\ \E t \in due : /\ autos[i].status = text(t)
                                          /\ autos[i].timestamp
                                                = ev.timestamp + t.offset_minutes ]_vars

\* the third scan has returned its event: the order's latest events are the
\* rendered step-3 event and the auto-event of the AFTER_SCAN_3 template;
\* the second scan has left no auto-event, its inactive template being
\* passed over and the text of its active one being there since step 1
C22_Witness ==
    \E p \in Procs, tn \in TrackingNumbers :
        LET ev == orders[tn].events
        IN  /\ ret[p].kind = "event"
            /\ Len(ManualEvents(ev)) = 3
            /\ Len(ev) >= 2
            /\ IsAuto(ev[Len(ev)])
            /\ ev[Len(ev)].status = "Ozhidaet vydachi, trek " \o tn
            /\ IsManual(ev[Len(ev) - 1])
            /\ StartsWith(ev[Len(ev) - 1].status, ARRIVED_PREFIX)
            /\ "Na granice" \notin Statuses(ev)
            /\ \A i \in 1..Len(ev) :
                  IsAuto(ev[i]) => ev[i].timestamp # ManualEvents(ev)[2].timestamp

\* the texts each template can be rendered to for each tracking number
TemplateRenderings ==
    [t \in AutoStatusTemplate |-> [tn \in TrackingNumbers |-> Renderings(t, tn)]]

\* the events written for tracking number tn so far, committed or not
Written(tn) ==
    LET Pending(p) == IF InFlight(p) /\ call[p].tn = tn THEN tx[p].events ELSE <<>>
    IN  orders[tn].events \o Pending(1) \o Pending(2)

\* C23: every auto-event has no actor and is stamped with the timestamp of
\* the scan event that triggered it plus the offset of its template, never
\* earlier than that event; and no event, manual or auto, carries a timestamp
\* later than the current time, so none was stamped later than its creation.
C23_AutoEventTimestamps ==
    \A tn \in TrackingNumbers :
        LET events == Written(tn)
        IN  \A i \in 1..Len(events) :
              LET e == events[i]
              IN  /\ e.timestamp <= clock
                  /\ e.location = "(avto)"
                        => /\ e.actor = NoUser
                           /\ \E j \in 1..(i - 1) :
                                 \E n \in 1..Len(STATUS_FLOW), t \in AutoStatusTemplate :
                                    LET base == events[j]
                                    IN  /\ base.location # "(avto)"
                                        /\ e.timestamp = base.timestamp + t.offset_minutes
                                        /\ e.timestamp >= base.timestamp
                                        /\ t.phase = PhaseAfter(n)
                                        /\ matches(STATUS_FLOW[n], base.status)
                                        /\ e.status \in TemplateRenderings[t][tn]

\* the template with an offset has been materialised after its due time:
\* its event carries the due time, which lies in the past
C23_Witness ==
    \E tn \in TrackingNumbers :
        LET ev == orders[tn].events
            m  == ManualEvents(ev)
        IN  /\ Len(m) = 1
            /\ \E i \in 1..Len(ev) :
                  /\ IsAuto(ev[i])
                  /\ ev[i].status = "V puti"
                  /\ ev[i].timestamp = m[1].timestamp + 2
                  /\ ev[i].timestamp < clock

\* the template names a field the context does not have
Unrenderable(t) ==
    \E i \in 1..Len(t.text) :
        /\ SubSeq(t.text[i], 1, 1) = "{"
        /\ t.text[i] \notin {"{pvz_name}", "{pvz_code}", "{pvz_address}", "{track}",
                             "{dest_city}", "{dest_label}", "{dest_code}"}

\* C24: a template that cannot be rendered does not fail the scan: the scan
\* returns its manual event, the auto-event of that template carries the raw
\* template text, and the templates after it are materialised as well; a
\* scan never ends with a rendering error.
C24_RenderingFailureAbsorbed ==
    [][ \A p \in Procs :
          /\ ScanAutoStep(p)
             => LET tn    == call[p].tn
                    ev    == tx[p].events[Len(tx[p].events)]
                    seen  == Statuses(View(p, tn))
                    autos == AutosOf(p)
                    Due(t) == /\ t.is_active
                              /\ t.phase = PhaseOf(ev.status)
                              /\ ev.timestamp + t.offset_minutes <= clock
                IN  /\ ret'[p].kind = "event"
                    /\ \E i \in 1..Len(orders'[tn].events) : orders'[tn].events[i] = ev
                    /\ \A t \in AutoStatusTemplate :
                          ( Due(t) /\ Unrenderable(t) /\ Concat(t.text) \notin seen )
                          => \E i \in 1..Len(autos) :
                                /\ autos[i].status = Concat(t.text)
                                /\ \A u \in AutoStatusTemplate :
                                      ( /\ Due(u) /\ ~Unrenderable(u)
                                        /\ u.order_index > t.order_index
                                        /\ Renderings(u, tn) \cap seen = {} )
                                      => \E j \in (i + 1)..Len(autos) :
                                            autos[j].status \in Renderings(u, tn)
          /\ ( call[p].op = "scan" /\ pc'[p] = "idle" /\ pc[p] # "idle" )
             => ( ret'[p].kind \in ScanOutcomes
                  \/ (~conf.solo /\ ret'[p].kind = "none") ) ]_vars

\* the fourth scan has returned its event; the template with the unknown
\* field {client} is there as raw text, followed by the next template
C24_Witness ==
    \E p \in Procs, tn \in TrackingNumbers :
        LET ev == orders[tn].events
        IN  /\ ret[p].kind = "event"
            /\ Len(ManualEvents(ev)) = 4
            /\ \E i \in 1..(Len(ev) - 1) :
                  /\ IsAuto(ev[i]) /\ ev[i].status = "Spasibo {client}"
                  /\ IsAuto(ev[i + 1]) /\ StartsWith(ev[i + 1].status, "Vydan v ")
                  /\ IsManual(ev[i - 1]) /\ ev[i - 1].status = "Poluchen"

\* C25: after any interleaving of assign_client_code calls for users of one
\* pickup point, no two users hold the same LC number or the same client
\* code.
C25_ClientCodesUnique ==
    \A u, v \in NewUsers :
        ( u # v /\ clients[u].client_code # NoCode /\ clients[v].client_code # NoCode )
        => /\ clients[u].client_code # clients[v].client_code
           /\ clients[u].lc_number # clients[v].lc_number

\* the events written by scans, with or without an actor
ScanEvents(events) == SelectSeq(events, LAMBDA e : e.location # "(avto)")

\* C26: every scan that returns an event, made by an employee or without an
\* actor, raises the order's progress by exactly one step and comes at least
\* one cooldown window after the previous scan that returned an event.
C26_EveryAcceptedScanAdvances ==
    [][ \A p \in Procs :
          ScanAutoStep(p)
          => LET tn   == call[p].tn
                 ev   == tx[p].events[Len(tx[p].events)]
                 prev == ScanEvents(orders[tn].events)
             IN  /\ ret'[p].kind = "event"
                 /\ Progress(orders'[tn].events) = Progress(orders[tn].events) + 1
                 /\ \A i \in 1..Len(prev) :
                       ev.timestamp >= prev[i].timestamp + SCAN_COOLDOWN_MINUTES ]_vars

\* C27: whatever the interleaving of the scans, any two manual events of an
\* order lie at least one cooldown window apart.
C27_ManualEventsSpaced ==
    \A tn \in TrackingNumbers :
        LET m == ManualEvents(orders[tn].events)
        IN  \A i, j \in 1..Len(m) :
              i < j => m[j].timestamp >= m[i].timestamp + SCAN_COOLDOWN_MINUTES

\* two scans in parallel, one cooldown window after the first manual event:
\* one has written the second manual event, the other has failed on the
\* cooldown
C27_Witness ==
    \E tn \in TrackingNumbers, p \in Procs :
        LET m == ManualEvents(orders[tn].events)
        IN  /\ Len(m) = 2
            /\ m[2].timestamp = m[1].timestamp + SCAN_COOLDOWN_MINUTES
            /\ ret[p].paired /\ ret[p].tn = tn
            /\ ret[p].kind = "cooldown_error"

\* request p's scan returns or fails with this step
ScanEnds(p) == call[p].op = "scan" /\ pc[p] # "idle" /\ pc'[p] = "idle"

\* C28: a scan that fails leaves the committed orders and events as they
\* were: no order, no manual event, no auto-event of it remains; a scan that
\* returns an event commits the order it created, the manual event and the
\* auto-events it materialised in one step, and before that step none of
\* them is among the committed rows other operations read.
C28_ScanAllOrNothing ==
    [][ \A p \in Procs :
          /\ ( ScanEnds(p) /\ ~ScanAutoStep(p) )
             => /\ orders' = orders
                /\ tx'[p] = NoTx
          /\ ( ScanEnds(p) /\ ret'[p].kind \in {"cooldown_error", "integrity_error"} )
             => orders' = orders
          /\ ( ScanStep(p) /\ ~ScanEnds(p) )
             => orders' = orders
          /\ ScanAutoStep(p)
             => LET tn    == call[p].tn
                    ev    == tx[p].events[Len(tx[p].events)]
                    autos == create_due_auto_events(View(p, tn), orders[tn].user, tn,
                                                    ev, call[p].user, clock)
                IN  /\ orders'[tn].exists
                    /\ orders'[tn].events = orders[tn].events \o <<ev>> \o autos
                    /\ \A i \in 1..Len(orders[tn].events) : orders[tn].events[i] # ev ]_vars

\* of two first scans in parallel one has failed on the unique index and
\* the other has committed the order with its manual event and auto-event
C28_Witness ==
    \E p, q \in Procs, tn \in TrackingNumbers :
        /\ PairedScans(p, q)
        /\ ret[p].kind = "integrity_error"
        /\ ret[q].kind = "event"
        /\ orders[tn].rows = 1
        /\ Len(orders[tn].events) = 2
        /\ IsManual(orders[tn].events[1])
        /\ IsAuto(orders[tn].events[2])

====
